---- MODULE Spec2Model ----
(***************************************************************************)
(* Model of the firewalling simulator's simulation core:                   *)
(*   SimulationManager (1 Hz fixed-step scheduler), Battleship (player),   *)
(*   Smartbomb, EnemyShip, Missile and Utils.                              *)
(*                                                                         *)
(* Numbers.  The code computes in JavaScript doubles on 3-D vectors.  The  *)
(* model is fixed point: lengths and speeds are integers in units of       *)
(* 1/Scale metre, and every scenario is collinear (all points lie on the   *)
(* x axis, y = z = 0, which every operation of the code preserves), so a   *)
(* vector is its x component, its magnitude is Abs and Utils.normalize is  *)
(* the sign.  Hit points, capacitor units and milliseconds are integers.   *)
(*                                                                         *)
(* Objects.  Missile objects live in `heap`, addressed by their index;     *)
(* EnemyShip.launchedMissiles and SimulationManager.missiles hold indexes, *)
(* as the code's arrays hold references to the same objects.               *)
(***************************************************************************)
EXTENDS Integers, Sequences, FiniteSets, TLC

VARIABLES
    now,            \* performance.now(), ms
    isRunning,      \* SimulationManager.isRunning
    lastTickTime,   \* SimulationManager.lastTickTime
    accumulator,    \* SimulationManager.accumulator
    missiles,       \* SimulationManager.missiles: sequence of heap indexes
    stats,          \* SimulationManager.stats
    battleship,     \* the Battleship object, with its Smartbomb
    enemies,        \* the EnemyShip array
    heap,           \* every Missile object constructed so far
    tickCount,      \* history: number of tick() calls executed so far
    lastTick,       \* history: what the most recent tick() did, in order
    session,        \* history: clock, accumulator and tickCount at the last start()
    commands        \* history: number of commands issued so far

vars == <<now, isRunning, lastTickTime, accumulator, missiles, stats,
          battleship, enemies, heap, tickCount, lastTick, session, commands>>

----------------------------------------------------------------------------
(* Bounds of the model *)

\* fixed-point resolution: 1 metre = Scale units
Scale == 100
\* the clock stops advancing at MaxTime ms
MaxTime == 5000
\* commands (key presses, direct calls) accepted in one run
MaxCommands == 3
\* direct Battleship.update calls in one run of the Battleship alone
MaxPlayerTicks == 11
\* ticks of the scheduler with tracked missiles, and missiles it is handed
MaxTrackedTicks == 22
MaxTracked == 2
MaxTrackedCommands == 1

\* frame lengths (ms) the host loop may produce
FrameDeltas == {1000, 2500}
\* points the player may be sent to (metres on the x axis)
NavPoints == {300, 4000}
\* damage amounts of direct Battleship.takeDamage calls
DamageAmounts == {0, 500, 9000}

----------------------------------------------------------------------------
(* Program constants *)

tickRate == 1000

baseSpeed == 125
baseSignatureRadius == 400
maxShield == 10000
maxArmor == 8000
maxCapacitor == 5000
capacitorRecharge == 100
afterburnerCapCost == 50
mwdCapCost == 200
mwdCycleTime == 10000
\* afterburnerBoost 1.5, afterburnerSigPenalty 1.1, mwdBoost 5.0, mwdSigPenalty 6.0
afterburnerBoost == <<3, 2>>
afterburnerSigPenalty == <<11, 10>>
mwdBoost == <<5, 1>>
mwdSigPenalty == <<6, 1>>

sbRange == 7500
sbDamage == 200
sbCycleTime == 3000
sbCapacitorCost == 600

missileMaxHP == 120
missileVelocity == 3000
explosionRadius == 125
explosionVelocity == 150
baseDamage == 500
maxFlightTime == 20
impactThreshold == 50
arrivalThreshold == 100

----------------------------------------------------------------------------
(* Arithmetic helpers *)

Abs(x) == IF x < 0 THEN -x ELSE x

Sign(x) == IF x > 0 THEN 1 ELSE IF x < 0 THEN -1 ELSE 0

Min(a, b) == IF a <= b THEN a ELSE b

\* v * n / d on fixed-point numbers, rounded toward zero
MulRatio(v, n, d) == IF v >= 0 THEN (v * n) \div d ELSE -(((-v) * n) \div d)

RECURSIVE SqrtBetween(_, _, _)
SqrtBetween(n, lo, hi) ==
    IF lo >= hi THEN lo
    ELSE LET mid == (lo + hi + 1) \div 2
         IN  IF mid * mid <= n THEN SqrtBetween(n, mid, hi)
                               ELSE SqrtBetween(n, lo, mid - 1)

\* floor of the square root of n
ISqrt(n) == SqrtBetween(n, 0, n)

Range(s) == {s[i] : i \in 1..Len(s)}

\* F applied to the value of x: JavaScript evaluates the argument of a call
\* once, before the call
Then(x, F(_)) == CHOOSE r \in {F(v) : v \in {x}} : TRUE

\* an absent object reference (null) and a present one
Null == <<>>
Some(x) == <<x>>

----------------------------------------------------------------------------
(* Utils.js *)

\* Utils.distance3D on collinear points
distance3D(p1, p2) == Abs(p2 - p1)

\* Utils.normalize on a collinear vector: (0,0,0) stays (0,0,0)
normalize(v) == Sign(v)

\* mutant of calculateMissileDamage: the velocity factor is left out
calculateMissileDamageNoVelocity(base, targetSigRadius, targetVelocity, missileExpRadius, missileVel) ==
    LET sn == IF targetSigRadius >= missileExpRadius THEN 1 ELSE targetSigRadius
        sd == IF targetSigRadius >= missileExpRadius THEN 1 ELSE missileExpRadius
    IN  (base * sn) \div sd

\* mutant of calculateMissileDamage: the velocity ratio is a tenth of what it
\* should be
calculateMissileDamageTenth(base, targetSigRadius, targetVelocity, missileExpRadius, missileVel) ==
    LET sn == IF targetSigRadius >= missileExpRadius THEN 1 ELSE targetSigRadius
        sd == IF targetSigRadius >= missileExpRadius THEN 1 ELSE missileExpRadius
        root == ISqrt((targetVelocity * 1000) \div (missileVel * Scale))
    IN  (base * sn * root) \div (sd * 100)

\* Utils.calculateMissileDamage: baseDamage * min(1, sig/expRadius) * sqrt(vel/expVel).
\* targetVelocity is a speed in 1/Scale m/s; the square root is taken to two
\* decimals and the result is in hit points, rounded down.
calculateMissileDamage(base, targetSigRadius, targetVelocity, missileExpRadius, missileVel) ==
    LET sn == IF targetSigRadius >= missileExpRadius THEN 1 ELSE targetSigRadius
        sd == IF targetSigRadius >= missileExpRadius THEN 1 ELSE missileExpRadius
        root == ISqrt((targetVelocity * 10000) \div (missileVel * Scale))
    IN  (base * sn * root) \div (sd * 100)

----------------------------------------------------------------------------
(* Battleship.js *)

\* the ticks of one smartbomb cycle
sbCycleTicks == sbCycleTime \div tickRate

\* new Smartbomb(scene, owner).  lastResult and sinceActivation are history:
\* what the latest activate() call returned, and the number of update() calls
\* since the latest successful activate() (counted up to sbCycleTicks, which
\* also stands for "never activated").
NewSmartbomb ==
    [isCycling |-> FALSE, cooldownRemaining |-> 0, activationCount |-> 0,
     lastResult |-> Null, sinceActivation |-> sbCycleTicks]

\* new Battleship(scene)
NewBattleship ==
    [position          |-> 0,
     velocity          |-> 0,
     targetPosition    |-> Null,
     navigationMode    |-> Null,
     currentSpeed      |-> 0,
     maxSpeed          |-> baseSpeed * Scale,
     signatureRadius   |-> baseSignatureRadius,
     currentShield     |-> maxShield,
     currentArmor      |-> maxArmor,
     currentCapacitor  |-> maxCapacitor,
     afterburnerActive |-> FALSE,
     mwdActive         |-> FALSE,
     mwdCycleRemaining |-> 0,
     smartbomb         |-> NewSmartbomb,
     mwdRun            |-> Null,     \* history, see applyMWD
     mwdReturned       |-> Null,     \* history: what the latest activateMWD() returned
     abStarved         |-> FALSE,    \* history: the latest update() switched the
                                     \* afterburner off for lack of capacitor
     arrived           |-> FALSE]    \* history: updateNavigation has cleared a target

\* mutant of applyAfterburner: a starved afterburner still boosts the ship
applyAfterburnerStarved(b) ==
    IF b.afterburnerActive
    THEN IF b.currentCapacitor >= afterburnerCapCost
         THEN [b EXCEPT !.maxSpeed = MulRatio(@, afterburnerBoost[1], afterburnerBoost[2]),
                        !.signatureRadius = MulRatio(@, afterburnerSigPenalty[1], afterburnerSigPenalty[2]),
                        !.currentCapacitor = @ - afterburnerCapCost,
                        !.abStarved = FALSE]
         ELSE [b EXCEPT !.maxSpeed = MulRatio(@, afterburnerBoost[1], afterburnerBoost[2]),
                        !.afterburnerActive = FALSE, !.abStarved = TRUE]
    ELSE [b EXCEPT !.abStarved = FALSE]

\* the afterburner block of Battleship.updatePropulsion
applyAfterburner(b) ==
    IF b.afterburnerActive
    THEN IF b.currentCapacitor >= afterburnerCapCost
         THEN [b EXCEPT !.maxSpeed = MulRatio(@, afterburnerBoost[1], afterburnerBoost[2]),
                        !.signatureRadius = MulRatio(@, afterburnerSigPenalty[1], afterburnerSigPenalty[2]),
                        !.currentCapacitor = @ - afterburnerCapCost,
                        !.abStarved = FALSE]
         ELSE [b EXCEPT !.afterburnerActive = FALSE, !.abStarved = TRUE]
    ELSE [b EXCEPT !.abStarved = FALSE]

\* the ticks of one MWD cycle
mwdCycleTicks == mwdCycleTime \div tickRate

\* history of the MWD block: mwdRun is Some(k) when activateMWD() last returned
\* true k <= mwdCycleTicks updates ago and the capacitor was at least
\* mwdCapCost at the MWD check of each of them, and Null otherwise
mwdRunAfterCheck(b) ==
    IF /\ b.mwdRun # Null
       /\ b.mwdRun[1] < mwdCycleTicks
       /\ b.mwdActive => b.currentCapacitor >= mwdCapCost
    THEN Some(b.mwdRun[1] + 1)
    ELSE Null

\* mutant of applyMWD: the cycle ends when the counter is below zero
applyMWDLate(b, deltaTime) ==
    IF b.mwdActive
    THEN LET remaining == b.mwdCycleRemaining - deltaTime * 1000
         IN  IF remaining >= 0 /\ b.currentCapacitor >= mwdCapCost
             THEN [b EXCEPT !.mwdCycleRemaining = remaining,
                            !.maxSpeed = MulRatio(@, mwdBoost[1], mwdBoost[2]),
                            !.signatureRadius = MulRatio(@, mwdSigPenalty[1], mwdSigPenalty[2]),
                            !.currentCapacitor = @ - mwdCapCost,
                            !.mwdRun = mwdRunAfterCheck(b)]
             ELSE [b EXCEPT !.mwdActive = FALSE, !.mwdCycleRemaining = 0,
                            !.mwdRun = mwdRunAfterCheck(b)]
    ELSE [b EXCEPT !.mwdRun = mwdRunAfterCheck(b)]

\* mutant of applyMWD: a cycle that ends leaves its counter as it is
applyMWDNoReset(b, deltaTime) ==
    IF b.mwdActive
    THEN LET remaining == b.mwdCycleRemaining - deltaTime * 1000
         IN  IF remaining > 0 /\ b.currentCapacitor >= mwdCapCost
             THEN [b EXCEPT !.mwdCycleRemaining = remaining,
                            !.maxSpeed = MulRatio(@, mwdBoost[1], mwdBoost[2]),
                            !.signatureRadius = MulRatio(@, mwdSigPenalty[1], mwdSigPenalty[2]),
                            !.currentCapacitor = @ - mwdCapCost,
                            !.mwdRun = mwdRunAfterCheck(b)]
             ELSE [b EXCEPT !.mwdActive = FALSE, !.mwdCycleRemaining = remaining,
                            !.mwdRun = mwdRunAfterCheck(b)]
    ELSE [b EXCEPT !.mwdRun = mwdRunAfterCheck(b)]

\* the MWD block of Battleship.updatePropulsion
applyMWD(b, deltaTime) ==
    IF b.mwdActive
    THEN LET remaining == b.mwdCycleRemaining - deltaTime * 1000
         IN  IF remaining > 0 /\ b.currentCapacitor >= mwdCapCost
             THEN [b EXCEPT !.mwdCycleRemaining = remaining,
                            !.maxSpeed = MulRatio(@, mwdBoost[1], mwdBoost[2]),
                            !.signatureRadius = MulRatio(@, mwdSigPenalty[1], mwdSigPenalty[2]),
                            !.currentCapacitor = @ - mwdCapCost,
                            !.mwdRun = mwdRunAfterCheck(b)]
             ELSE [b EXCEPT !.mwdActive = FALSE, !.mwdCycleRemaining = 0,
                            !.mwdRun = mwdRunAfterCheck(b)]
    ELSE [b EXCEPT !.mwdRun = mwdRunAfterCheck(b)]

\* mutant of updatePropulsion: maxSpeed and signatureRadius are not reset to
\* their base values before the modules are applied
updatePropulsionAccumulating(b, deltaTime) ==
    applyMWD(applyAfterburner(b), deltaTime)

\* Battleship.updatePropulsion
updatePropulsion(b, deltaTime) ==
    applyMWD(applyAfterburner([b EXCEPT !.maxSpeed = baseSpeed * Scale,
                                        !.signatureRadius = baseSignatureRadius]),
             deltaTime)

\* the speed clamp of updateNavigation / updateMovement: scale the velocity to maxSpeed
clampVelocity(velocity, maxSpd) ==
    LET currentVel == Abs(velocity)
    IN  IF currentVel > maxSpd THEN Sign(velocity) * maxSpd ELSE velocity

\* mutant of updateNavigation: a ship without a target coasts on its velocity
updateNavigationCoasting(b, deltaTime) ==
    IF b.targetPosition = Null
    THEN [b EXCEPT !.velocity = MulRatio(@, 95, 100),
                   !.position = @ + MulRatio(b.velocity, 95, 100) * deltaTime]
    ELSE LET direction == b.targetPosition[1] - b.position
             distance  == Abs(direction)
         IN  IF distance < arrivalThreshold * Scale
             THEN [b EXCEPT !.targetPosition = Null, !.arrived = TRUE]
             ELSE LET acceleration == MulRatio(b.maxSpeed, 3, 10)
                      accelerated  == b.velocity + normalize(direction) * acceleration * deltaTime
                      clamped      == clampVelocity(accelerated, b.maxSpeed)
                  IN  [b EXCEPT !.velocity = clamped,
                                !.position = @ + clamped * deltaTime]

\* Battleship.updateNavigation
updateNavigation(b, deltaTime) ==
    IF b.targetPosition = Null
    THEN [b EXCEPT !.velocity = MulRatio(@, 95, 100)]
    ELSE LET direction == b.targetPosition[1] - b.position
             distance  == Abs(direction)
         IN  IF distance < arrivalThreshold * Scale
             THEN [b EXCEPT !.targetPosition = Null, !.arrived = TRUE]
             ELSE LET acceleration == MulRatio(b.maxSpeed, 3, 10)
                      accelerated  == b.velocity + normalize(direction) * acceleration * deltaTime
                      clamped      == clampVelocity(accelerated, b.maxSpeed)
                  IN  [b EXCEPT !.velocity = clamped,
                                !.position = @ + clamped * deltaTime]

\* mutant of rechargeCapacitor: the Math.min cap is missing
rechargeCapacitorUncapped(b) ==
    [b EXCEPT !.currentCapacitor = @ + capacitorRecharge]

\* mutant of rechargeCapacitor: nothing is recharged
rechargeCapacitorNone(b) == b

\* Battleship.rechargeCapacitor
rechargeCapacitor(b) ==
    [b EXCEPT !.currentCapacitor = Min(maxCapacitor, @ + capacitorRecharge)]

\* mutant of smartbombUpdate: the cooldown is never decremented
smartbombUpdateIdle(sb) ==
    [sb EXCEPT !.sinceActivation = Min(@ + 1, sbCycleTicks)]

\* mutant of smartbombUpdate: isCycling is cleared only below zero
smartbombUpdateLate(sb) ==
    IF sb.cooldownRemaining > 0
    THEN LET remaining == sb.cooldownRemaining - 1000
         IN  [sb EXCEPT !.cooldownRemaining = remaining,
                        !.isCycling = IF remaining < 0 THEN FALSE ELSE @,
                        !.sinceActivation = Min(@ + 1, sbCycleTicks)]
    ELSE [sb EXCEPT !.sinceActivation = Min(@ + 1, sbCycleTicks)]

\* Smartbomb.update: the cooldown countdown (one tick = 1000 ms)
smartbombUpdate(sb) ==
    IF sb.cooldownRemaining > 0
    THEN LET remaining == sb.cooldownRemaining - 1000
         IN  [sb EXCEPT !.cooldownRemaining = remaining,
                        !.isCycling = IF remaining <= 0 THEN FALSE ELSE @,
                        !.sinceActivation = Min(@ + 1, sbCycleTicks)]
    ELSE [sb EXCEPT !.sinceActivation = Min(@ + 1, sbCycleTicks)]

\* Battleship.update
battleshipUpdate(b, deltaTime) ==
    LET b1 == updatePropulsion(b, deltaTime)
        b2 == updateNavigation(b1, deltaTime)
        b3 == rechargeCapacitor(b2)
        b4 == [b3 EXCEPT !.smartbomb = smartbombUpdate(@)]
    IN  [b4 EXCEPT !.currentSpeed = Abs(b4.velocity)]

\* mutant of navigateTo: the ship is stopped before it turns to the new target
navigateToFromRest(b, position, mode) ==
    [b EXCEPT !.targetPosition = Some(position), !.navigationMode = Some(mode),
              !.velocity = 0]

\* Battleship.navigateTo
navigateTo(b, position, mode) ==
    [b EXCEPT !.targetPosition = Some(position), !.navigationMode = Some(mode)]

\* Battleship.toggleAfterburner
toggleAfterburner(b) == [b EXCEPT !.afterburnerActive = ~@]

\* mutant of activateMWD: the mwdActive guard is missing
activateMWDAgain(b) ==
    [b EXCEPT !.mwdActive = TRUE, !.mwdCycleRemaining = mwdCycleTime,
              !.mwdRun = Some(0), !.mwdReturned = Some(TRUE)]

\* Battleship.activateMWD
activateMWD(b) ==
    IF b.mwdActive THEN [b EXCEPT !.mwdReturned = Some(FALSE)]
    ELSE [b EXCEPT !.mwdActive = TRUE, !.mwdCycleRemaining = mwdCycleTime,
                   !.mwdRun = Some(0), !.mwdReturned = Some(TRUE)]

\* Battleship.takeDamage
takeDamage(b, damage) ==
    IF b.currentShield > 0
    THEN LET shield == b.currentShield - damage
         IN  IF shield < 0
             THEN [b EXCEPT !.currentArmor = @ + shield, !.currentShield = 0]
             ELSE [b EXCEPT !.currentShield = shield]
    ELSE IF b.currentArmor > 0
         THEN LET armor == b.currentArmor - damage
              IN  [b EXCEPT !.currentArmor = IF armor < 0 THEN 0 ELSE armor]
         ELSE b

----------------------------------------------------------------------------
(* Missile.js.  A Missile's target is the Battleship or absent.  The fields *)
(* spawnPosition, bornTick, seen, impacts, lateUpdate, explosions, reason,  *)
(* damageDealt, trackedTick and lateCalls are history: they record what     *)
(* happened to the object and are never read by the code.                   *)

\* new Missile(scene, startPos, target, launcherId)
NewMissile(startPos, target, launcherId, tick) ==
    [position     |-> startPos,
     target       |-> target,
     launcherId   |-> launcherId,
     currentHP    |-> missileMaxHP,
     flightTime   |-> 0,
     alive        |-> TRUE,
     hasImpacted  |-> FALSE,
     spawnPosition |-> startPos,
     bornTick     |-> tick,
     seen         |-> <<>>,     \* <<flightTime, position, alive>> at the end of the
                                \* tick of its launch and of the following tick
     impacts      |-> 0,        \* calls of target.takeDamage made by this missile
     lateUpdate   |-> FALSE,    \* update() was called again after it had impacted
     explosions   |-> 0,        \* createExplosion() calls made by destroy()
     reason       |-> Null,     \* the reason passed to the destroy() that ended it
     damageDealt  |-> Null,     \* the damage it passed to target.takeDamage
     trackedTick  |-> Null,     \* the tick count when addMissiles() took it
     lateCalls    |-> {}]       \* the methods called on it while it was not alive

\* mutant of missileDestroy: the alive guard is missing
missileDestroyAgain(m, reason) ==
    [m EXCEPT !.alive = FALSE, !.explosions = @ + 1, !.reason = Some(reason)]

\* mutant of missileDestroy: alive is not cleared
missileDestroyKeepsAlive(m, reason) ==
    [m EXCEPT !.explosions = @ + 1, !.reason = Some(reason)]

\* Missile.destroy
missileDestroy(m, reason) ==
    IF ~m.alive THEN [m EXCEPT !.lateCalls = @ \cup {"destroy"}]
    ELSE [m EXCEPT !.alive = FALSE, !.explosions = @ + 1, !.reason = Some(reason)]

\* mutant of missileImpact: the hasImpacted guard is missing
missileImpactUnguarded(m, b) ==
    IF m.target = Null
    THEN <<[m EXCEPT !.hasImpacted = TRUE], b>>
    ELSE LET damage == calculateMissileDamage(baseDamage, b.signatureRadius, b.currentSpeed,
                                              explosionRadius, explosionVelocity)
         IN  <<missileDestroy([m EXCEPT !.hasImpacted = TRUE, !.impacts = @ + 1,
                                        !.damageDealt = Some(damage)], "impact"),
               takeDamage(b, damage)>>

\* Missile.impact: a pair <<missile, target>> after the call
missileImpact(m, b) ==
    IF m.hasImpacted \/ ~m.alive
    THEN <<[m EXCEPT !.lateCalls = IF m.alive THEN @ ELSE @ \cup {"impact"}], b>>
    ELSE IF m.target = Null
    THEN <<[m EXCEPT !.hasImpacted = TRUE], b>>   \* then reading this.target throws
    ELSE LET targetVelocity  == b.currentSpeed
             targetSigRadius == IF b.signatureRadius = 0 THEN 400 ELSE b.signatureRadius
             damage == calculateMissileDamage(baseDamage, targetSigRadius, targetVelocity,
                                              explosionRadius, explosionVelocity)
         IN  <<missileDestroy([m EXCEPT !.hasImpacted = TRUE, !.impacts = @ + 1,
                                        !.damageDealt = Some(damage)], "impact"),
               takeDamage(b, damage)>>

\* mutant of missileTakeDamage: the alive guard is missing
missileTakeDamageUnguarded(m, damage) ==
    LET hp == m.currentHP - damage
    IN  IF hp <= 0 THEN <<missileDestroy([m EXCEPT !.currentHP = hp], "destroyed"), TRUE>>
                   ELSE <<[m EXCEPT !.currentHP = hp], FALSE>>

\* Missile.takeDamage: a pair <<missile, destroyed>> after the call
missileTakeDamage(m, damage) ==
    IF ~m.alive THEN <<[m EXCEPT !.lateCalls = @ \cup {"takeDamage"}], FALSE>>
    ELSE LET hp == m.currentHP - damage
         IN  IF hp <= 0 THEN <<missileDestroy([m EXCEPT !.currentHP = hp], "destroyed"), TRUE>>
                        ELSE <<[m EXCEPT !.currentHP = hp], FALSE>>

\* mutant of missileUpdate: a missile without a target still ages and times out
missileUpdateAgeing(m, b, deltaTime) ==
    IF ~m.alive
    THEN <<[m EXCEPT !.lateUpdate = @ \/ m.hasImpacted, !.lateCalls = @ \cup {"update"}], b>>
    ELSE LET flown == m.flightTime + deltaTime
         IN  IF flown >= maxFlightTime
             THEN <<missileDestroy([m EXCEPT !.flightTime = flown], "timeout"), b>>
             ELSE IF m.target = Null
             THEN <<[m EXCEPT !.flightTime = flown], b>>
             ELSE LET targetPos  == b.position
                      direction  == targetPos - m.position
                      distance   == missileVelocity * Scale * deltaTime
                      moved      == [m EXCEPT !.flightTime = flown,
                                              !.position = @ + normalize(direction) * distance]
                      distToTarget == distance3D(moved.position, targetPos)
                  IN  IF distToTarget < impactThreshold * Scale
                      THEN missileImpact(moved, b)
                      ELSE <<moved, b>>

\* Missile.update: a pair <<missile, target>> after the call
missileUpdate(m, b, deltaTime) ==
    IF ~m.alive \/ m.target = Null
    THEN <<[m EXCEPT !.lateUpdate = @ \/ m.hasImpacted,
                     !.lateCalls = IF m.alive THEN @ ELSE @ \cup {"update"}], b>>
    ELSE LET flown == m.flightTime + deltaTime
         IN  IF flown >= maxFlightTime
             THEN <<missileDestroy([m EXCEPT !.flightTime = flown], "timeout"), b>>
             ELSE LET targetPos  == b.position
                      direction  == targetPos - m.position
                      distance   == missileVelocity * Scale * deltaTime
                      moved      == [m EXCEPT !.flightTime = flown,
                                              !.position = @ + normalize(direction) * distance]
                      distToTarget == distance3D(moved.position, targetPos)
                  IN  IF distToTarget < impactThreshold * Scale
                      THEN missileImpact(moved, b)
                      ELSE <<moved, b>>

----------------------------------------------------------------------------
(* Smartbomb.js *)

\* mutant of applyDamage: a missile at exactly the range is not hit
RECURSIVE applyDamageInside(_, _, _)
applyDamageInside(h, ids, ownerPos) ==
    IF ids = <<>> THEN <<h, 0>>
    ELSE LET id == Head(ids)
             m  == h[id]
             inRange == m.alive /\ distance3D(ownerPos, m.position) < sbRange * Scale
             hit  == IF inRange THEN missileTakeDamage(m, sbDamage) ELSE <<m, FALSE>>
         IN  Then(hit, LAMBDA t :
             Then([h EXCEPT ![id] = t[1]], LAMBDA h1 :
             Then(applyDamageInside(h1, Tail(ids), ownerPos), LAMBDA rest :
                 <<rest[1], rest[2] + (IF t[2] THEN 1 ELSE 0)>>)))

\* Smartbomb.applyDamage over the missile array, front to back:
\* a pair <<heap, destroyedCount>>
RECURSIVE applyDamage(_, _, _)
applyDamage(h, ids, ownerPos) ==
    IF ids = <<>> THEN <<h, 0>>
    ELSE LET id == Head(ids)
             m  == h[id]
             inRange == m.alive /\ distance3D(ownerPos, m.position) <= sbRange * Scale
             hit  == IF inRange THEN missileTakeDamage(m, sbDamage) ELSE <<m, FALSE>>
         IN  Then(hit, LAMBDA t :
             Then([h EXCEPT ![id] = t[1]], LAMBDA h1 :
             Then(applyDamage(h1, Tail(ids), ownerPos), LAMBDA rest :
                 <<rest[1], rest[2] + (IF t[2] THEN 1 ELSE 0)>>)))

\* a return of Smartbomb.activate: the owner, the heap and the object returned
returned(b, h, result) ==
    [battleship |-> [b EXCEPT !.smartbomb.lastResult = Some(result)],
     heap |-> h, result |-> result]

\* mutant of startCycle: the capacitor is not debited
startCycleFree(b) ==
    [b EXCEPT !.smartbomb.isCycling = TRUE,
              !.smartbomb.cooldownRemaining = sbCycleTime,
              !.smartbomb.activationCount = @ + 1,
              !.smartbomb.sinceActivation = 0]

\* Smartbomb.activate, "Drain capacitor" and "Set cycling state"
startCycle(b) ==
    [b EXCEPT !.currentCapacitor = @ - sbCapacitorCost,
              !.smartbomb.isCycling = TRUE,
              !.smartbomb.cooldownRemaining = sbCycleTime,
              !.smartbomb.activationCount = @ + 1,
              !.smartbomb.sinceActivation = 0]

\* mutant of smartbombActivate: the capacitor check comes before the cycling check
smartbombActivateCapFirst(b, h, ids) ==
    IF b.currentCapacitor < sbCapacitorCost
    THEN returned(b, h, [success |-> FALSE, reason |-> "no_cap"])
    ELSE IF b.smartbomb.isCycling
    THEN returned(b, h, [success |-> FALSE, reason |-> "cycling"])
    ELSE LET b1 == startCycle(b)
         IN  Then(applyDamage(h, ids, b1.position), LAMBDA dmg :
                 returned(b1, dmg[1],
                          [success |-> TRUE, missilesDestroyed |-> dmg[2],
                           activationCount |-> b1.smartbomb.activationCount]))

\* Smartbomb.activate: the owner, the heap and the result after the call
smartbombActivate(b, h, ids) ==
    IF b.smartbomb.isCycling
    THEN returned(b, h, [success |-> FALSE, reason |-> "cycling"])
    ELSE IF b.currentCapacitor < sbCapacitorCost
    THEN returned(b, h, [success |-> FALSE, reason |-> "no_cap"])
    ELSE LET b1 == startCycle(b)
         IN  Then(applyDamage(h, ids, b1.position), LAMBDA dmg :
                 returned(b1, dmg[1],
                          [success |-> TRUE, missilesDestroyed |-> dmg[2],
                           activationCount |-> b1.smartbomb.activationCount]))

----------------------------------------------------------------------------
(* EnemyShip.js.  Math.random() is an input: every call of the code that    *)
(* draws random numbers takes a record `draw` of the numbers drawn.         *)

\* Utils.randomFloat(min, max) for a draw of u/2 from Math.random(), u in {0, 1}
randomFloat(min, max, u) == min + ((max - min) * u) \div 2

\* the draws one EnemyShip.update may consume
RandomDraws ==
    {[behavior |-> "orbit",            dist |-> 0, side |->  1, speed |-> 0, jitter |-> <<0>>],
     [behavior |-> "keeprange",        dist |-> 1, side |-> -1, speed |-> 1, jitter |-> <<-10, 0, 10>>],
     [behavior |-> "approach_retreat", dist |-> 0, side |-> -1, speed |-> 1, jitter |-> <<10>>]}

\* EnemyShip.chooseNewBehavior
chooseNewBehavior(e, b, draw) ==
    IF e.target = Null THEN e
    ELSE LET targetPos == b.position
             dest ==
                 CASE draw.behavior = "orbit" ->
                          targetPos + draw.side * randomFloat(30000, 70000, draw.dist) * Scale
                   [] draw.behavior = "keeprange" ->
                          targetPos + normalize(e.position - targetPos)
                                        * randomFloat(40000, 80000, draw.dist) * Scale
                   [] draw.behavior = "approach_retreat" ->
                          targetPos + draw.side * randomFloat(50000, 90000, draw.dist) * Scale
         IN  [e EXCEPT !.targetPosition = Some(dest),
                       !.maxSpeed = randomFloat(200, 600, draw.speed) * Scale]

\* EnemyShip.updateMovement
updateMovement(e, deltaTime) ==
    IF e.targetPosition = Null THEN e
    ELSE LET direction    == e.targetPosition[1] - e.position
             acceleration == MulRatio(e.maxSpeed, 2, 10)
             accelerated  == e.velocity + normalize(direction) * acceleration * deltaTime
             currentVel   == Abs(accelerated)
             clamped      == clampVelocity(accelerated, e.maxSpeed)
         IN  [e EXCEPT !.velocity = clamped,
                       !.currentSpeed = currentVel,
                       !.position = @ + clamped * deltaTime]

\* the launch positions of one volley: the ship's position plus a jitter per missile
RECURSIVE volleyPositions(_, _, _, _)
volleyPositions(e, jitter, i, n) ==
    IF i > n THEN <<>>
    ELSE <<e.position + jitter[((i - 1) % Len(jitter)) + 1] * Scale>>
         \o volleyPositions(e, jitter, i + 1, n)

\* EnemyShip.launchMissileVolley: the ship, the heap and the returned array
launchMissileVolley(e, h, tick, draw) ==
    IF e.target = Null THEN [enemy |-> e, heap |-> h, returned |-> <<>>]
    ELSE LET at  == volleyPositions(e, draw.jitter, 1, e.volleySize)
             new == [i \in 1..e.volleySize |-> NewMissile(at[i], e.target, e.id, tick)]
             ids == [i \in 1..e.volleySize |-> Len(h) + i]
         IN  [enemy |-> [e EXCEPT !.launchedMissiles = @ \o ids, !.lastVolley = ids],
              heap |-> h \o new,
              returned |-> ids]

\* EnemyShip.update: the ship and the heap after the call (the array returned by
\* launchMissileVolley is dropped by the caller at EnemyShip.update)
enemyUpdate(e, b, h, tick, draw, deltaTime) ==
    LET timer1 == e.behaviorChangeTimer - deltaTime
        e1 == IF timer1 <= 0
              THEN [chooseNewBehavior([e EXCEPT !.lastVolley = <<>>], b, draw)
                        EXCEPT !.behaviorChangeTimer = e.behaviorChangeInterval,
                               !.switches = @ + 1]
              ELSE [e EXCEPT !.lastVolley = <<>>, !.behaviorChangeTimer = timer1]
    IN  Then(updateMovement(e1, deltaTime), LAMBDA e2 :
            LET timer2 == e2.missileTimer - deltaTime
            IN  IF timer2 <= 0 /\ e2.target # Null
                THEN Then(launchMissileVolley(e2, h, tick, draw), LAMBDA l :
                         [enemy |-> [l.enemy EXCEPT !.missileTimer = e2.missileLaunchInterval],
                          heap |-> l.heap])
                ELSE [enemy |-> [e2 EXCEPT !.missileTimer = timer2], heap |-> h])

\* the draws of one EnemyShip constructor: start position (metres), timers
\* (seconds), volley size and the draw of its first chooseNewBehavior.
\* NearSetup is a ship whose first volley (tick 3) is launched 3020 m from the
\* origin, one missile tick away from a player who stayed there.
NearSetup ==
    [startPosition |-> 2780, maxSpeed |-> 0, behaviorChangeTimer |-> 5,
     behaviorChangeInterval |-> 5, missileTimer |-> 3, missileLaunchInterval |-> 5,
     volleySize |-> 3,
     draw |-> [behavior |-> "orbit", dist |-> 0, side |-> 1, speed |-> 0, jitter |-> <<0>>]]

\* FarSetup is a ship out of missile range whose first volley is due on tick 7.
FarSetup ==
    [startPosition |-> 70000, maxSpeed |-> 1, behaviorChangeTimer |-> 5,
     behaviorChangeInterval |-> 6, missileTimer |-> 7, missileLaunchInterval |-> 6,
     volleySize |-> 4,
     draw |-> [behavior |-> "keeprange", dist |-> 1, side |-> 1, speed |-> 1, jitter |-> <<0>>]]

\* the enemy fleets main.js may hand to the SimulationManager (the setups of its ships)
Fleets == {<<NearSetup, FarSetup>>}

\* new EnemyShip(scene, id, target, startPosition)
NewEnemyShip(id, b, setup) ==
    chooseNewBehavior(
        [id                     |-> id,
         target                 |-> Some("battleship"),
         position               |-> setup.startPosition * Scale,
         velocity               |-> 0,
         currentSpeed           |-> 0,
         maxSpeed               |-> randomFloat(200, 600, setup.maxSpeed) * Scale,
         targetPosition         |-> Null,
         behaviorChangeTimer    |-> setup.behaviorChangeTimer,
         behaviorChangeInterval |-> setup.behaviorChangeInterval,
         missileTimer           |-> setup.missileTimer,
         missileLaunchInterval  |-> setup.missileLaunchInterval,
         volleySize             |-> setup.volleySize,
         launchedMissiles       |-> <<>>,
         lastVolley             |-> <<>>,    \* history: the volley of its latest update
         switches               |-> 0,       \* history: behavior switches made by update()
         intervalRolls          |-> 1],      \* history: random draws of behaviorChangeInterval
        b, setup.draw)

----------------------------------------------------------------------------
(* SimulationManager.js.  tick() works on the record                        *)
(*   [battleship, enemies, heap, missiles, stats, log]                      *)
(* where log is the history of this tick (lastTick).                        *)

NewStats == [missilesLaunched |-> 0, missilesDestroyed |-> 0, smartbombCycles |-> 0]

NoTick ==
    [phases |-> <<>>,                \* the steps of the tick, in the order executed
     launched |-> <<>>,              \* missiles constructed by EnemyShips during the tick
     launchedBefore |-> 0,           \* stats.missilesLaunched when the tick began
     launchedAfterEnemies |-> 0,     \* ... when the enemy pass ended
     trackedAfterEnemies |-> <<>>,   \* this.missiles when the enemy pass ended
     pruned |-> <<>>,                \* this.missiles as the filter left it
     playerSpeed |-> 0,              \* battleship.currentSpeed after its update
     playerSig |-> 0,                \* battleship.signatureRadius after its update
     hits |-> <<>>,                  \* missiles that impacted in the missile pass
     callbacks |-> <<>>]             \* the missiles argument of each updateCallback call

\* mutant of checkEnemyMissileLaunch: it returns the volley the enemy has just launched
checkEnemyMissileLaunchVolley(enemy) == enemy.lastVolley

\* SimulationManager.checkEnemyMissileLaunch
checkEnemyMissileLaunch(enemy) == <<>>

\* tick(): "Update battleship"
tickBattleship(w, deltaTime) ==
    Then(battleshipUpdate(w.battleship, deltaTime), LAMBDA b :
        [w EXCEPT !.battleship = b,
                  !.log.phases = Append(@, "battleship"),
                  !.log.playerSpeed = b.currentSpeed,
                  !.log.playerSig = b.signatureRadius])

\* tick(): the body of this.enemies.forEach for the enemy at index i
tickEnemy(w, i, tick, draw, deltaTime) ==
    Then(enemyUpdate(w.enemies[i], w.battleship, w.heap, tick, draw, deltaTime), LAMBDA u :
        LET newMissiles == checkEnemyMissileLaunch(u.enemy)
            pushed == Len(newMissiles) > 0
        IN  [w EXCEPT !.enemies[i] = u.enemy,
                      !.heap = u.heap,
                      !.missiles = IF pushed THEN @ \o newMissiles ELSE @,
                      !.stats.missilesLaunched = IF pushed THEN @ + Len(newMissiles) ELSE @,
                      !.log.phases = Append(@, "enemy"),
                      !.log.launched = @ \o u.enemy.lastVolley])

\* tick(): "Update enemies"
RECURSIVE tickEnemies(_, _, _, _, _)
tickEnemies(w, i, tick, draw, deltaTime) ==
    IF i > Len(w.enemies)
    THEN [w EXCEPT !.log.launchedAfterEnemies = w.stats.missilesLaunched,
                   !.log.trackedAfterEnemies = w.missiles]
    ELSE Then(tickEnemy(w, i, tick, draw, deltaTime), LAMBDA w1 :
             tickEnemies(w1, i + 1, tick, draw, deltaTime))

\* tick(): "Update missiles", over the elements ids[k..] of this.missiles
RECURSIVE tickMissiles(_, _, _, _)
tickMissiles(w, ids, k, deltaTime) ==
    IF k > Len(ids) THEN w
    ELSE LET id == ids[k]
         IN  IF w.heap[id].alive
             THEN Then(missileUpdate(w.heap[id], w.battleship, deltaTime), LAMBDA u :
                  Then([w EXCEPT !.heap[id] = u[1],
                                 !.battleship = u[2],
                                 !.log.phases = Append(@, "missile"),
                                 !.log.hits = IF u[1].impacts > w.heap[id].impacts
                                              THEN Append(@, id) ELSE @], LAMBDA w1 :
                      tickMissiles(w1, ids, k + 1, deltaTime)))
             ELSE tickMissiles(w, ids, k + 1, deltaTime)

\* mutant of tickPrune: a missile that ended in a tick, by impact or timeout,
\* passes the filter
tickPruneGrace(w) ==
    LET kept == SelectSeq(w.missiles, LAMBDA id :
                    w.heap[id].alive \/ w.heap[id].reason \in {Some("impact"), Some("timeout")})
    IN  [w EXCEPT !.missiles = kept,
                  !.log.phases = Append(@, "prune"),
                  !.log.pruned = kept]

\* mutant of tickPrune: the filter keeps every missile
tickPruneNone(w) ==
    [w EXCEPT !.log.phases = Append(@, "prune"),
              !.log.pruned = w.missiles]

\* tick(): "Clean up dead missiles".  destroyTime is never assigned, so
\* Date.now() - m.destroyTime is NaN and the filter keeps exactly the alive ones.
tickPrune(w) ==
    LET kept == SelectSeq(w.missiles, LAMBDA id : w.heap[id].alive)
    IN  [w EXCEPT !.missiles = kept,
                  !.log.phases = Append(@, "prune"),
                  !.log.pruned = kept]

\* tick(): "Callback to update HUD"
tickCallback(w) ==
    [w EXCEPT !.log.phases = Append(@, "callback"),
              !.log.callbacks = Append(@, w.missiles)]

\* history: at the end of a tick, note the state of the missiles launched in it
\* or in the tick before
observeMissiles(w, tick) ==
    [w EXCEPT !.heap = [id \in DOMAIN w.heap |->
        IF w.heap[id].bornTick >= tick - 1 /\ Len(w.heap[id].seen) < 2
        THEN [w.heap[id] EXCEPT !.seen = Append(@, <<w.heap[id].flightTime,
                                                      w.heap[id].position,
                                                      w.heap[id].alive>>)]
        ELSE w.heap[id]]]

\* mutant of simTick: the HUD callback runs before the dead missiles are filtered out
simTickCallbackFirst(w, tick, draw) ==
    LET deltaTime == tickRate \div 1000
    IN  Then([w EXCEPT !.log = [NoTick EXCEPT !.launchedBefore = w.stats.missilesLaunched]],
             LAMBDA w0 :
        Then(tickBattleship(w0, deltaTime), LAMBDA w1 :
        Then(tickEnemies(w1, 1, tick, draw, deltaTime), LAMBDA w2 :
        Then(tickMissiles(w2, w2.missiles, 1, deltaTime), LAMBDA w3 :
        Then(tickCallback(w3), LAMBDA w4 :
        Then(tickPrune(w4), LAMBDA w5 :
            observeMissiles(w5, tick)))))))

\* mutant of simTick: the missile pass runs before the Battleship's update
simTickMissilesFirst(w, tick, draw) ==
    LET deltaTime == tickRate \div 1000
    IN  Then([w EXCEPT !.log = [NoTick EXCEPT !.launchedBefore = w.stats.missilesLaunched]],
             LAMBDA w0 :
        Then(tickMissiles(w0, w0.missiles, 1, deltaTime), LAMBDA w1 :
        Then(tickBattleship(w1, deltaTime), LAMBDA w2 :
        Then(tickEnemies(w2, 1, tick, draw, deltaTime), LAMBDA w3 :
        Then(tickPrune(w3), LAMBDA w4 :
        Then(tickCallback(w4), LAMBDA w5 :
            observeMissiles(w5, tick)))))))

\* SimulationManager.tick; tick is the number of this tick, draw its random numbers
simTick(w, tick, draw) ==
    LET deltaTime == tickRate \div 1000
    IN  Then([w EXCEPT !.log = [NoTick EXCEPT !.launchedBefore = w.stats.missilesLaunched]],
             LAMBDA w0 :
        Then(tickBattleship(w0, deltaTime), LAMBDA w1 :
        Then(tickEnemies(w1, 1, tick, draw, deltaTime), LAMBDA w2 :
        Then(tickMissiles(w2, w2.missiles, 1, deltaTime), LAMBDA w3 :
        Then(tickPrune(w3), LAMBDA w4 :
        Then(tickCallback(w4), LAMBDA w5 :
            observeMissiles(w5, tick)))))))

\* mutant of runTicks: the loop condition is > instead of >=
RECURSIVE runTicksStrict(_, _, _, _)
runTicksStrict(w, acc, tick, draw) ==
    IF acc > tickRate
    THEN Then(simTick(w, tick + 1, draw), LAMBDA w1 :
             runTicksStrict(w1, acc - tickRate, tick + 1, draw))
    ELSE <<w, acc, tick>>

\* the while loop of SimulationManager.update: <<world, accumulator, ticks run>>
RECURSIVE runTicks(_, _, _, _)
runTicks(w, acc, tick, draw) ==
    IF acc >= tickRate
    THEN Then(simTick(w, tick + 1, draw), LAMBDA w1 :
             runTicks(w1, acc - tickRate, tick + 1, draw))
    ELSE <<w, acc, tick>>

World ==
    [battleship |-> battleship, enemies |-> enemies, heap |-> heap,
     missiles |-> missiles, stats |-> stats, log |-> lastTick]

----------------------------------------------------------------------------
(* The whole simulator: main.js constructs the Battleship, the EnemyShips   *)
(* and the SimulationManager; the host loop calls update(performance.now()) *)
(* once per frame, and input handlers issue commands between frames.        *)

simVars == <<isRunning, lastTickTime, accumulator>>
worldVars == <<missiles, stats, battleship, enemies, heap, lastTick>>

Init ==
    /\ now = 0
    /\ isRunning = FALSE
    /\ lastTickTime = 0
    /\ accumulator = 0
    /\ missiles = <<>>
    /\ stats = NewStats
    /\ battleship = NewBattleship
    /\ enemies \in {[i \in 1..Len(f) |-> NewEnemyShip(i - 1, NewBattleship, f[i])] : f \in Fleets}
    /\ heap = <<>>
    /\ tickCount = 0
    /\ lastTick = NoTick
    /\ session = [startTime |-> 0, accumulator |-> 0, tickCount |-> 0]
    /\ commands = 0

\* SimulationManager.start
Start ==
    /\ commands < MaxCommands
    /\ commands' = commands + 1
    /\ isRunning' = TRUE
    /\ lastTickTime' = now
    /\ session' = [startTime |-> now, accumulator |-> accumulator, tickCount |-> tickCount]
    /\ UNCHANGED <<now, accumulator, worldVars, tickCount>>

\* SimulationManager.stop
Stop ==
    /\ commands < MaxCommands
    /\ commands' = commands + 1
    /\ isRunning' = FALSE
    /\ UNCHANGED <<now, lastTickTime, accumulator, worldVars, tickCount, session>>

\* mutant of simUpdate: the isRunning check is missing
simUpdateAlways(currentTime, draw) ==
    Then(runTicks(World, accumulator + (currentTime - lastTickTime), tickCount, draw),
         LAMBDA r : <<currentTime, r[2], r[1], r[3]>>)

\* SimulationManager.update(currentTime): what it does to
\* <<lastTickTime, accumulator, world, tickCount>>
simUpdate(currentTime, draw) ==
    IF ~isRunning THEN <<lastTickTime, accumulator, World, tickCount>>
    ELSE LET deltaTime == currentTime - lastTickTime
         IN  Then(runTicks(World, accumulator + deltaTime, tickCount, draw),
                  LAMBDA r : <<currentTime, r[2], r[1], r[3]>>)

\* one frame of the host loop (main.js animate): the clock has advanced by dt
\* and update(performance.now()) is called
Frame(dt, draw) ==
    /\ now + dt <= MaxTime
    /\ now' = now + dt
    /\ \E u \in {simUpdate(now + dt, draw)} :
           /\ lastTickTime' = u[1]
           /\ accumulator' = u[2]
           /\ battleship' = u[3].battleship
           /\ enemies' = u[3].enemies
           /\ heap' = u[3].heap
           /\ missiles' = u[3].missiles
           /\ stats' = u[3].stats
           /\ lastTick' = u[3].log
           /\ tickCount' = u[4]
    /\ UNCHANGED <<isRunning, session, commands>>

\* a command changes the Battleship only
BattleshipCommand(b) ==
    /\ commands < MaxCommands
    /\ commands' = commands + 1
    /\ battleship' = b
    /\ UNCHANGED <<now, simVars, missiles, stats, enemies, heap, tickCount, lastTick, session>>

\* key 'a': Battleship.toggleAfterburner
ToggleAfterburner == BattleshipCommand(toggleAfterburner(battleship))

\* key 'shift': Battleship.activateMWD
ActivateMWD == BattleshipCommand(activateMWD(battleship))

\* left click: Battleship.navigateTo(point, 'approach')
NavigateTo(p) == BattleshipCommand(navigateTo(battleship, p * Scale, "approach"))

\* key 'escape': this.battleship.targetPosition = null
clearTarget(b) == [b EXCEPT !.targetPosition = Null]

ClearTarget == BattleshipCommand(clearTarget(battleship))

\* mutant of countSmartbomb: a cycle is counted whatever activate returned
countSmartbombAlways(st, result) == [st EXCEPT !.smartbombCycles = @ + 1]

\* mutant of countSmartbomb: the activation is counted as a missile destroyed
countSmartbombAsKill(st, result) ==
    IF result.success
    THEN [st EXCEPT !.smartbombCycles = @ + 1,
                    !.missilesDestroyed = @ + result.missilesDestroyed + 1]
    ELSE st

\* SimulationManager.activateSmartbomb: stats after a call that returned result
countSmartbomb(st, result) ==
    IF result.success
    THEN [st EXCEPT !.smartbombCycles = @ + 1,
                    !.missilesDestroyed = @ + result.missilesDestroyed]
    ELSE st

\* key ' ': SimulationManager.activateSmartbomb
ActivateSmartbomb ==
    /\ commands < MaxCommands
    /\ commands' = commands + 1
    /\ \E r \in {smartbombActivate(battleship, heap, missiles)} :
           /\ battleship' = r.battleship
           /\ heap' = r.heap
           /\ stats' = countSmartbomb(stats, r.result)
    /\ UNCHANGED <<now, simVars, missiles, enemies, tickCount, lastTick, session>>

\* SimulationManager.addMissiles(missiles), called with the missiles an
\* EnemyShip has launched and the manager does not track yet
AddMissiles(i) ==
    LET new == SelectSeq(enemies[i].launchedMissiles, LAMBDA id : id \notin Range(missiles))
    IN  /\ commands < MaxCommands
        /\ new # <<>>
        /\ commands' = commands + 1
        /\ missiles' = missiles \o new
        /\ stats' = [stats EXCEPT !.missilesLaunched = @ + Len(new)]
        /\ heap' = [id \in DOMAIN heap |->
                       IF id \in Range(new)
                       THEN [heap[id] EXCEPT !.trackedTick = Some(tickCount)]
                       ELSE heap[id]]
        /\ UNCHANGED <<now, simVars, battleship, enemies, tickCount, lastTick, session>>

Next ==
    \/ Start
    \/ Stop
    \/ \E dt \in FrameDeltas, draw \in RandomDraws : Frame(dt, draw)
    \/ ToggleAfterburner
    \/ ActivateMWD
    \/ \E p \in NavPoints : NavigateTo(p)
    \/ ClearTarget
    \/ ActivateSmartbomb
    \/ \E i \in 1..Len(enemies) : AddMissiles(i)

Spec == Init /\ [][Next]_vars

----------------------------------------------------------------------------
(* The Battleship alone: update(1) as tick() calls it, the commands, and    *)
(* takeDamage, in any order.                                                *)

\* A Battleship with a drained capacitor, as the program reaches it from
\* NewBattleship with the afterburner on, one full MWD cycle and three smartbomb
\* activations: toggleAfterburner, update, activateMWD, 10 updates,
\* then 3 times (activateSmartbomb, 3 updates), then 1 update.
DrainedBattleship ==
    [NewBattleship EXCEPT !.currentCapacitor = 650,
                          !.afterburnerActive = TRUE,
                          !.maxSpeed = MulRatio(baseSpeed * Scale, afterburnerBoost[1], afterburnerBoost[2]),
                          !.signatureRadius = MulRatio(baseSignatureRadius, afterburnerSigPenalty[1], afterburnerSigPenalty[2]),
                          !.mwdReturned = Some(TRUE),
                          !.smartbomb.activationCount = 3,
                          !.smartbomb.lastResult =
                              Some([success |-> TRUE, missilesDestroyed |-> 0,
                                    activationCount |-> 3])]

\* Missiles handed to addMissiles right after their launch, at 3020 m, 7500 m
\* (the smartbomb range) and 7600 m from the origin
NearbyMissiles ==
    [i \in 1..3 |->
        [NewMissile(<<3020, sbRange, 7600>>[i] * Scale, Some("battleship"), 0, 0)
            EXCEPT !.trackedTick = Some(0)]]

InitPlayer ==
    /\ now = 0
    /\ isRunning = FALSE
    /\ lastTickTime = 0
    /\ accumulator = 0
    /\ heap \in {<<>>, NearbyMissiles}
    /\ missiles = [i \in 1..Len(heap) |-> i]
    /\ stats = [NewStats EXCEPT !.missilesLaunched = Len(heap)]
    /\ battleship \in {NewBattleship, DrainedBattleship}
    /\ enemies = <<>>
    /\ tickCount = 0
    /\ lastTick = NoTick
    /\ session = [startTime |-> 0, accumulator |-> 0, tickCount |-> 0]
    /\ commands = 0

\* Battleship.update(deltaTime) with the deltaTime of tick()
PlayerUpdate ==
    /\ tickCount < MaxPlayerTicks
    /\ tickCount' = tickCount + 1
    /\ battleship' = battleshipUpdate(battleship, tickRate \div 1000)
    /\ UNCHANGED <<now, simVars, missiles, stats, enemies, heap, lastTick, session, commands>>

\* a direct call of Battleship.takeDamage (what Missile.impact calls)
TakeDamage(d) == BattleshipCommand(takeDamage(battleship, d))

NextPlayer ==
    \/ PlayerUpdate
    \/ ToggleAfterburner
    \/ ActivateMWD
    \/ \E p \in NavPoints : NavigateTo(p)
    \/ ClearTarget
    \/ \E d \in DamageAmounts : TakeDamage(d)
    \/ ActivateSmartbomb

SpecPlayer == InitPlayer /\ [][NextPlayer]_vars

----------------------------------------------------------------------------
(* One Missile alone: update(1), impact(), takeDamage(amount) and destroy() *)
(* called on it in any order, while its target is updated independently.    *)

\* start positions of the missile (metres from the origin)
MissileStarts == {30, 3020, 6500}
\* amounts of direct Missile.takeDamage calls
MissileDamageAmounts == {0, 50, 200}

\* A Battleship under way, as the program reaches it from NewBattleship by
\* navigateTo({x: 4000}) and 4 updates.
CruisingBattleship ==
    [NewBattleship EXCEPT !.targetPosition = Some(4000 * Scale),
                          !.navigationMode = Some("approach"),
                          !.velocity = baseSpeed * Scale,
                          !.currentSpeed = baseSpeed * Scale,
                          !.position = (baseSpeed * Scale * 28) \div 10]

InitMissile ==
    /\ now = 0
    /\ isRunning = FALSE
    /\ lastTickTime = 0
    /\ accumulator = 0
    /\ missiles = <<>>
    /\ stats = NewStats
    /\ battleship \in {NewBattleship, CruisingBattleship}
    /\ enemies = <<>>
    /\ \E p \in MissileStarts, t \in {Some("battleship"), Null} :
           heap = <<NewMissile(battleship.position + p * Scale, t, 0, -2)>>
    /\ tickCount = 0
    /\ lastTick = NoTick
    /\ session = [startTime |-> 0, accumulator |-> 0, tickCount |-> 0]
    /\ commands = 0

missileVars == <<now, simVars, missiles, stats, enemies, tickCount, lastTick, session, commands>>

\* missile.update(1)
MissileUpdate(id) ==
    /\ LET u == missileUpdate(heap[id], battleship, tickRate \div 1000)
       IN  /\ heap' = [heap EXCEPT ![id] = u[1]]
           /\ battleship' = u[2]
    /\ UNCHANGED missileVars

\* missile.impact()
MissileImpact(id) ==
    /\ LET u == missileImpact(heap[id], battleship)
       IN  /\ heap' = [heap EXCEPT ![id] = u[1]]
           /\ battleship' = u[2]
    /\ UNCHANGED missileVars

\* missile.takeDamage(amount)
MissileTakeDamage(id, amount) ==
    /\ heap' = [heap EXCEPT ![id] = missileTakeDamage(@, amount)[1]]
    /\ UNCHANGED <<battleship, missileVars>>

\* missile.destroy(reason)
MissileDestroy(id) ==
    /\ heap' = [heap EXCEPT ![id] = missileDestroy(@, "removed")]
    /\ UNCHANGED <<battleship, missileVars>>

NextMissile ==
    \/ \E id \in DOMAIN heap : MissileUpdate(id)
    \/ \E id \in DOMAIN heap : MissileImpact(id)
    \/ \E id \in DOMAIN heap, a \in MissileDamageAmounts : MissileTakeDamage(id, a)
    \/ \E id \in DOMAIN heap : MissileDestroy(id)
    \/ PlayerUpdate

SpecMissile == InitMissile /\ [][NextMissile]_vars

----------------------------------------------------------------------------
(* The scheduler with missiles handed to addMissiles: tick() as the while   *)
(* loop of update() calls it, addMissiles with one new Missile, and the     *)
(* commands, over a missile's whole lifetime.                               *)

\* where the missiles handed to addMissiles start (metres from the origin)
TrackedStarts == {3020, 6500}

\* one call of SimulationManager.tick
TrackedTick ==
    /\ tickCount < MaxTrackedTicks
    /\ tickCount' = tickCount + 1
    /\ \E w \in {simTick(World, tickCount + 1, CHOOSE d \in RandomDraws : TRUE)} :
           /\ battleship' = w.battleship
           /\ enemies' = w.enemies
           /\ heap' = w.heap
           /\ missiles' = w.missiles
           /\ stats' = w.stats
           /\ lastTick' = w.log
    /\ UNCHANGED <<now, simVars, session, commands>>

\* addMissiles([new Missile(scene, startPos, target, 0)]), early enough for
\* the missile's lifetime to end within MaxTrackedTicks
TrackMissile(p, target) ==
    /\ Len(heap) < MaxTracked
    /\ tickCount + maxFlightTime <= MaxTrackedTicks
    /\ heap' = Append(heap, [NewMissile(p * Scale, target, 0, tickCount)
                                EXCEPT !.trackedTick = Some(tickCount)])
    /\ missiles' = Append(missiles, Len(heap) + 1)
    /\ stats' = [stats EXCEPT !.missilesLaunched = @ + 1]
    /\ UNCHANGED <<now, simVars, battleship, enemies, tickCount, lastTick, session, commands>>

InitTracked ==
    /\ now = 0
    /\ isRunning = TRUE
    /\ lastTickTime = 0
    /\ accumulator = 0
    /\ missiles = <<>>
    /\ stats = NewStats
    /\ battleship = NewBattleship
    /\ enemies = <<>>
    /\ heap = <<>>
    /\ tickCount = 0
    /\ lastTick = NoTick
    /\ session = [startTime |-> 0, accumulator |-> 0, tickCount |-> 0]
    /\ commands = 0

NextTracked ==
    \/ TrackedTick
    \/ \E p \in TrackedStarts, t \in {Some("battleship"), Null} : TrackMissile(p, t)
    \/ commands < MaxTrackedCommands /\ \E p \in NavPoints : NavigateTo(p)
    \/ commands < MaxTrackedCommands /\ ActivateSmartbomb

SpecTracked == InitTracked /\ [][NextTracked]_vars

\* tick() is called for as long as the simulation runs
SpecTrackedFair == SpecTracked /\ WF_vars(TrackedTick)

----------------------------------------------------------------------------
(* Claims on the Battleship (SpecPlayer) *)

\* C1: in every reachable state currentShield is within [0, maxShield] and
\* currentArmor is within [0, maxArmor].
C1_TankWithinBounds ==
    /\ 0 <= battleship.currentShield /\ battleship.currentShield <= maxShield
    /\ 0 <= battleship.currentArmor /\ battleship.currentArmor <= maxArmor

\* C2: in every reachable state currentCapacitor is within [0, maxCapacitor].
C2_CapacitorWithinBounds ==
    /\ 0 <= battleship.currentCapacitor
    /\ battleship.currentCapacitor <= maxCapacitor

\* C2 witness: after ticks with the afterburner on and a further smartbomb
\* activation the capacitor is below the MWD cost.
C2_Witness ==
    /\ tickCount > 0
    /\ battleship.afterburnerActive
    /\ battleship.smartbomb.activationCount > DrainedBattleship.smartbomb.activationCount
    /\ battleship.currentCapacitor < mwdCapCost

\* C3: at the end of every tick the published speed is at most the maxSpeed
\* computed in that tick.
C3_SpeedWithinMaxSpeed == battleship.currentSpeed <= battleship.maxSpeed

----------------------------------------------------------------------------
(* Claims on the SimulationManager (Spec) *)

\* C4: when EnemyShips launch a volley during a tick, at the end of the enemy
\* pass every missile of the volley is in this.missiles and
\* stats.missilesLaunched has grown by the volley size.
C4_VolleyRegistered ==
    Len(lastTick.launched) > 0 =>
        /\ Range(lastTick.launched) \subseteq Range(lastTick.trackedAfterEnemies)
        /\ lastTick.launchedAfterEnemies = lastTick.launchedBefore + Len(lastTick.launched)

\* C5: a missile launched during tick T has, at the end of tick T, flightTime 0
\* and its spawn position.
C5_NotAdvancedInLaunchTick ==
    \A id \in DOMAIN heap :
        Len(heap[id].seen) >= 1 =>
            /\ heap[id].seen[1][1] = 0
            /\ heap[id].seen[1][2] = heap[id].spawnPosition

\* C5 witness: a tick has ended in which an EnemyShip launched a volley.
C5_Witness ==
    /\ Len(lastTick.launched) > 0
    /\ \A id \in Range(lastTick.launched) : Len(heap[id].seen) = 1

\* C6: a missile launched during tick T and alive at the end of tick T+1 has
\* then flightTime 1 and has left its spawn position.
C6_AdvancedInNextTick ==
    \A id \in DOMAIN heap :
        (Len(heap[id].seen) = 2 /\ heap[id].seen[2][3]) =>
            /\ heap[id].seen[2][1] = 1
            /\ heap[id].seen[2][2] # heap[id].spawnPosition

\* C7: while running, the time elapsed since start() plus the accumulator held
\* at start() equals ticks executed since then * tickRate + accumulator, and
\* 0 <= accumulator < tickRate.
C7_NoTickSkippedOrAdded ==
    /\ 0 <= accumulator /\ accumulator < tickRate
    /\ isRunning =>
           (lastTickTime - session.startTime) + session.accumulator
               = (tickCount - session.tickCount) * tickRate + accumulator

\* C7 witness: a session started with a carried-over accumulator has run
\* ticks, one update call having run more than one.
C7_Witness ==
    /\ isRunning
    /\ session.accumulator > 0
    /\ tickCount - session.tickCount >= 3

\* C8: while stopped, a frame's update() changes neither accumulator,
\* lastTickTime, units, missiles nor stats and runs no tick; stop() leaves the
\* accumulator unchanged.
C8_StoppedUpdateDoesNothing ==
    [][/\ (~isRunning /\ now' # now) =>
              UNCHANGED <<accumulator, lastTickTime, worldVars, tickCount>>
       /\ (isRunning /\ ~isRunning') => accumulator' = accumulator]_vars

\* C8 witness: stopped after ticks have run, with a non-zero accumulator, and
\* a frame has passed since.
C8_Witness ==
    /\ ~isRunning
    /\ tickCount > 0
    /\ accumulator > 0
    /\ now > lastTickTime

PhaseRank(p) ==
    CASE p = "battleship" -> 1
      [] p = "enemy" -> 2
      [] p = "missile" -> 3
      [] p = "prune" -> 4
      [] p = "callback" -> 5

PhaseCount(p) == Cardinality({i \in 1..Len(lastTick.phases) : lastTick.phases[i] = p})

\* C9: in every tick the Battleship is updated first, then every EnemyShip,
\* then the alive tracked missiles, then the dead ones are filtered out, and
\* last the callback is called, once, with the filtered array.
C9_TickOrder ==
    tickCount > 0 =>
        /\ \A i, j \in 1..Len(lastTick.phases) :
               i < j => PhaseRank(lastTick.phases[i]) <= PhaseRank(lastTick.phases[j])
        /\ PhaseCount("battleship") = 1
        /\ PhaseCount("enemy") = Len(enemies)
        /\ PhaseCount("missile") >= Len(lastTick.pruned)
        /\ PhaseCount("prune") = 1
        /\ PhaseCount("callback") = 1
        /\ lastTick.callbacks = <<lastTick.pruned>>

\* C9 witness: a tick that updated missiles and filtered a dead one out.
C9_Witness ==
    /\ tickCount > 0
    /\ PhaseCount("missile") > 0
    /\ Len(lastTick.pruned) < Len(lastTick.trackedAfterEnemies)

----------------------------------------------------------------------------
(* Claims on the Missile (SpecMissile) *)

\* C10: a missile calls its target's takeDamage at most once, whatever the
\* sequence of update, impact, takeDamage and destroy calls.
C10_ImpactAtMostOnce == \A id \in DOMAIN heap : heap[id].impacts <= 1

\* C10 witness: a missile has impacted and update was called on it again.
C10_Witness ==
    \E id \in DOMAIN heap :
        /\ heap[id].impacts = 1
        /\ heap[id].hasImpacted
        /\ heap[id].lateUpdate

\* C11: takeDamage(amount) on a missile that is not alive returns false, leaves
\* currentHP unchanged and makes no further explosion, for every amount.
C11_DeadTakesNoDamage ==
    \A id \in DOMAIN heap : \A amount \in MissileDamageAmounts :
        ~heap[id].alive =>
            LET r == missileTakeDamage(heap[id], amount)
            IN  /\ r[2] = FALSE
                /\ r[1].currentHP = heap[id].currentHP
                /\ r[1].alive = heap[id].alive
                /\ r[1].explosions = heap[id].explosions

\* C11 witness: takeDamage was called on a missile that was not alive and still
\* had hit points.
C11_Witness ==
    \E id \in DOMAIN heap :
        /\ ~heap[id].alive
        /\ "takeDamage" \in heap[id].lateCalls
        /\ heap[id].currentHP > 0

\* C12: alive never goes back to true and a missile explodes at most once; once
\* it is not alive, no update, impact, takeDamage or destroy call changes its
\* position, flightTime, currentHP or hasImpacted, nor its target.
C12_DeadStaysDead ==
    [][\A id \in DOMAIN heap :
          /\ heap'[id].explosions <= 1
          /\ ~heap[id].alive =>
                 /\ ~heap'[id].alive
                 /\ heap'[id].position = heap[id].position
                 /\ heap'[id].flightTime = heap[id].flightTime
                 /\ heap'[id].currentHP = heap[id].currentHP
                 /\ heap'[id].hasImpacted = heap[id].hasImpacted
                 /\ heap'[id].explosions = heap[id].explosions
                 /\ (tickCount' = tickCount => battleship' = battleship)]_vars

\* C12 witness: every method was called on a missile after it was not alive.
C12_Witness ==
    \E id \in DOMAIN heap :
        /\ ~heap[id].alive
        /\ heap[id].lateCalls = {"update", "impact", "takeDamage", "destroy"}

----------------------------------------------------------------------------
(* Claims on the Smartbomb (SpecPlayer) *)

\* the tracked missiles that are alive and within smartbomb range of the owner
InRange ==
    {id \in Range(missiles) :
        heap[id].alive /\ distance3D(battleship.position, heap[id].position) <= sbRange * Scale}

\* C13: while isCycling, activate returns {success: false, reason: 'cycling'}
\* and changes neither the capacitor, cooldownRemaining, activationCount nor
\* any missile, also when the capacitor is below the cost.
C13_CyclingRefused ==
    battleship.smartbomb.isCycling =>
        LET r == smartbombActivate(battleship, heap, missiles)
        IN  /\ r.result = [success |-> FALSE, reason |-> "cycling"]
            /\ r.heap = heap
            /\ r.battleship = [battleship EXCEPT !.smartbomb.lastResult = Some(r.result)]

\* C13 witness: an activate call was refused for cycling with the capacitor
\* below the cost and an alive missile in range.
C13_Witness ==
    /\ battleship.smartbomb.isCycling
    /\ battleship.smartbomb.lastResult = Some([success |-> FALSE, reason |-> "cycling"])
    /\ battleship.currentCapacitor < sbCapacitorCost
    /\ InRange # {}

\* C14: while not cycling and with the capacitor below the cost, activate
\* returns {success: false, reason: 'no_cap'} and changes neither the capacitor,
\* isCycling, cooldownRemaining, activationCount, any missile nor the stats.
C14_NoCapRefused ==
    (~battleship.smartbomb.isCycling /\ battleship.currentCapacitor < sbCapacitorCost) =>
        LET r == smartbombActivate(battleship, heap, missiles)
        IN  /\ r.result = [success |-> FALSE, reason |-> "no_cap"]
            /\ r.heap = heap
            /\ r.battleship = [battleship EXCEPT !.smartbomb.lastResult = Some(r.result)]
            /\ countSmartbomb(stats, r.result) = stats

\* C14 witness: an activate call was refused for lack of capacitor with an
\* alive missile in range.
C14_Witness ==
    /\ ~battleship.smartbomb.isCycling
    /\ battleship.smartbomb.lastResult = Some([success |-> FALSE, reason |-> "no_cap"])
    /\ battleship.currentCapacitor < sbCapacitorCost
    /\ InRange # {}

\* C15: a step that applies one effect of a successful activate (isCycling
\* becomes true, cooldownRemaining rises, activationCount rises) applies them
\* all: the capacitor falls by exactly the cost, isCycling is true,
\* cooldownRemaining is cycleTime and activationCount has grown by 1.
C15_ActivationAtomic ==
    [][(\/ battleship'.smartbomb.isCycling /\ ~battleship.smartbomb.isCycling
        \/ battleship'.smartbomb.cooldownRemaining > battleship.smartbomb.cooldownRemaining
        \/ battleship'.smartbomb.activationCount # battleship.smartbomb.activationCount)
       => /\ battleship'.currentCapacitor = battleship.currentCapacitor - sbCapacitorCost
          /\ battleship'.smartbomb.isCycling
          /\ battleship'.smartbomb.cooldownRemaining = sbCycleTime
          /\ battleship'.smartbomb.activationCount = battleship.smartbomb.activationCount + 1]_vars

\* C15 witness: the state right after an activation that destroyed a missile.
C15_Witness ==
    /\ battleship.smartbomb.lastResult # Null
    /\ battleship.smartbomb.lastResult[1].success
    /\ battleship.smartbomb.lastResult[1].missilesDestroyed > 0
    /\ battleship.smartbomb.sinceActivation = 0

\* C16: every tick lowers a running cooldown by one tick's time; isCycling
\* holds exactly during the sbCycleTicks ticks after a successful activate, after
\* which an activate with enough capacitor succeeds; and an activate succeeds
\* only if sbCycleTicks ticks have passed since the previous success.
C16_CooldownPerTick ==
    /\ [](/\ battleship.smartbomb.isCycling
              <=> battleship.smartbomb.sinceActivation < sbCycleTicks
          /\ (/\ battleship.smartbomb.sinceActivation = sbCycleTicks
              /\ battleship.currentCapacitor >= sbCapacitorCost)
                 => smartbombActivate(battleship, heap, missiles).result.success)
    /\ [][/\ tickCount' = tickCount + 1 =>
                battleship'.smartbomb.cooldownRemaining =
                    IF battleship.smartbomb.cooldownRemaining > 0
                    THEN battleship.smartbomb.cooldownRemaining - tickRate
                    ELSE 0
          /\ battleship'.smartbomb.activationCount > battleship.smartbomb.activationCount =>
                battleship.smartbomb.sinceActivation = sbCycleTicks]_vars

\* C16 witness: a second activation succeeded exactly sbCycleTicks ticks after
\* the first one.
C16_Witness ==
    /\ tickCount = sbCycleTicks
    /\ battleship.smartbomb.activationCount = 2
    /\ battleship.smartbomb.sinceActivation = 0

----------------------------------------------------------------------------
(* Claims on the propulsion modules (SpecPlayer) *)

\* C17: if activateMWD() returned true and the capacitor was at least the MWD
\* cost at every MWD check since, the MWD is active after each of the next
\* mwdCycleTicks - 1 ticks, its counter falling by one tick's time per tick,
\* and after tick mwdCycleTicks mwdActive is false and mwdCycleRemaining is 0.
C17_MWDCycle ==
    battleship.mwdRun # Null =>
        LET k == battleship.mwdRun[1]
        IN  IF k < mwdCycleTicks
            THEN /\ battleship.mwdActive
                 /\ battleship.mwdCycleRemaining = mwdCycleTime - k * tickRate
            ELSE /\ ~battleship.mwdActive
                 /\ battleship.mwdCycleRemaining = 0

\* C17 witness: the MWD has run a whole cycle and switched itself off on its
\* last tick.
C17_Witness ==
    /\ battleship.mwdRun = Some(mwdCycleTicks)
    /\ ~battleship.mwdActive
    /\ tickCount >= mwdCycleTicks

\* C18: activateMWD() on an active MWD returns false and changes nothing, in
\* particular not mwdCycleRemaining; on an inactive MWD it sets mwdActive,
\* sets mwdCycleRemaining to mwdCycleTime and returns true, whatever the
\* capacitor holds, and changes nothing else.
C18_ActivateMWD ==
    LET r == activateMWD(battleship)
    IN  IF battleship.mwdActive
        THEN r = [battleship EXCEPT !.mwdReturned = Some(FALSE)]
        ELSE r = [battleship EXCEPT !.mwdActive = TRUE,
                                    !.mwdCycleRemaining = mwdCycleTime,
                                    !.mwdReturned = Some(TRUE),
                                    !.mwdRun = Some(0)]

\* C18 witness: activateMWD() has returned false on an MWD part-way through
\* its cycle.
C18_Witness ==
    /\ battleship.mwdReturned = Some(FALSE)
    /\ battleship.mwdActive
    /\ battleship.mwdCycleRemaining > 0
    /\ battleship.mwdCycleRemaining < mwdCycleTime

\* what the MWD block did to the capacitor and the speed in a tick after which
\* the MWD is active (applied) or not
mwdDebit(active) == IF active THEN mwdCapCost ELSE 0
mwdSpeed(spd, active) == IF active THEN MulRatio(spd, mwdBoost[1], mwdBoost[2]) ELSE spd

\* C19: on a tick that starts with the afterburner flag set, if the capacitor
\* is at least afterburnerCapCost it is debited by exactly that cost (next to
\* the MWD debit and the recharge of the tick), the boost is applied and the
\* flag stays set; otherwise the flag is cleared, nothing is debited and
\* maxSpeed and signatureRadius are the base values.
C19_AfterburnerTick ==
    [][(tickCount' = tickCount + 1 /\ battleship.afterburnerActive) =>
          IF battleship.currentCapacitor >= afterburnerCapCost
          THEN /\ battleship'.afterburnerActive
               /\ battleship'.currentCapacitor =
                      Min(maxCapacitor,
                          battleship.currentCapacitor - afterburnerCapCost
                              - mwdDebit(battleship'.mwdActive) + capacitorRecharge)
               /\ battleship'.maxSpeed =
                      mwdSpeed(MulRatio(baseSpeed * Scale, afterburnerBoost[1], afterburnerBoost[2]),
                               battleship'.mwdActive)
          ELSE /\ ~battleship'.afterburnerActive
               /\ battleship'.currentCapacitor = battleship.currentCapacitor + capacitorRecharge
               /\ battleship'.maxSpeed = baseSpeed * Scale
               /\ battleship'.signatureRadius = baseSignatureRadius]_vars

\* C19 witness: a tick has switched the afterburner off for lack of capacitor.
C19_Witness ==
    /\ battleship.abStarved
    /\ ~battleship.afterburnerActive
    /\ tickCount > 0

----------------------------------------------------------------------------
(* Claims on the Missile's lifetime (SpecMissile) *)

\* C20: an update of an alive missile with a target ends it with reason
\* 'timeout' exactly when the incremented flightTime exceeds maxFlightTime;
\* while the incremented flightTime is at most maxFlightTime it is not timed out.
C20_TimeoutWhenExceeded ==
    [][\A id \in DOMAIN heap :
          (/\ heap[id].alive
           /\ heap[id].target # Null
           /\ heap'[id].flightTime = heap[id].flightTime + 1)
          => (heap'[id].reason = Some("timeout")
                 <=> heap'[id].flightTime > maxFlightTime)]_vars

----------------------------------------------------------------------------
(* Claims on damage (SpecPlayer, SpecMissile) *)

\* C21: in every reachable state every missile's currentHP is within
\* [0, missileMaxHP].
C21_MissileHPWithinBounds ==
    \A id \in DOMAIN heap :
        0 <= heap[id].currentHP /\ heap[id].currentHP <= missileMaxHP

\* the cascade of C22 applied to Battleship b and damage d
cascade(b, d) ==
    IF b.currentShield >= d /\ b.currentShield > 0
    THEN [b EXCEPT !.currentShield = @ - d]
    ELSE IF b.currentShield > 0
    THEN [b EXCEPT !.currentShield = 0, !.currentArmor = @ - (d - b.currentShield)]
    ELSE [b EXCEPT !.currentArmor = IF @ - d > 0 THEN @ - d ELSE 0]

\* C22: takeDamage(d), d >= 0: a shield of at least d decreases by d and nothing
\* else changes; a shield between 0 and d becomes 0 and the armor decreases by
\* d - shield; with the shield at 0 the armor becomes max(0, armor - d).
C22_DamageCascade ==
    \A d \in DamageAmounts : takeDamage(battleship, d) = cascade(battleship, d)

----------------------------------------------------------------------------
(* Claims on navigation (SpecPlayer) *)

\* C24: navigateTo changes only targetPosition and navigationMode, and
\* navigateTo followed by clearing the target, with no tick in between,
\* leaves position and velocity as they were; no command that changes the
\* target changes anything else.
C24_NavigateThenClear ==
    /\ [](\A p \in NavPoints :
             LET n == navigateTo(battleship, p * Scale, "approach")
                 c == clearTarget(n)
             IN  /\ n = [battleship EXCEPT !.targetPosition = Some(p * Scale),
                                           !.navigationMode = Some("approach")]
                 /\ c.position = battleship.position
                 /\ c.velocity = battleship.velocity)
    /\ [][(tickCount' = tickCount /\ battleship'.targetPosition # battleship.targetPosition) =>
              battleship' = [battleship EXCEPT !.targetPosition = battleship'.targetPosition,
                                               !.navigationMode = battleship'.navigationMode]]_vars

\* C24 witness: navigateTo and then the clearing of the target were the only
\* two calls made, before any tick.
C24_Witness ==
    /\ tickCount = 0
    /\ commands = 2
    /\ battleship.navigationMode = Some("approach")
    /\ battleship.targetPosition = Null
    /\ battleship.position = NewBattleship.position
    /\ battleship.velocity = NewBattleship.velocity

----------------------------------------------------------------------------
(* Claims on the Missile's target (SpecMissile) *)

\* C25: update on an alive missile without a target changes neither its
\* position, flightTime, alive, hasImpacted nor currentHP, nor the Battleship,
\* however often it is called.
C25_NoTargetNoOp ==
    \A id \in DOMAIN heap :
        (heap[id].alive /\ heap[id].target = Null) =>
            LET u == missileUpdate(heap[id], battleship, tickRate \div 1000)
            IN  /\ u[1].position = heap[id].position
                /\ u[1].flightTime = heap[id].flightTime
                /\ u[1].alive
                /\ u[1].hasImpacted = heap[id].hasImpacted
                /\ u[1].currentHP = heap[id].currentHP
                /\ u[1].flightTime = 0
                /\ u[1].position = heap[id].spawnPosition
                /\ u[2] = battleship

\* C25 witness: update was called on an alive missile without a target (after
\* an impact() call on it), and the missile is where it was launched.
C25_Witness ==
    \E id \in DOMAIN heap :
        /\ heap[id].alive
        /\ heap[id].target = Null
        /\ heap[id].lateUpdate
        /\ heap[id].position = heap[id].spawnPosition

----------------------------------------------------------------------------
(* Claims on the Smartbomb's damage (SpecPlayer) *)

\* C26: a successful activate takes sbDamage from every tracked missile that is
\* alive and within sbRange of the owner, leaves every other missile as it is,
\* and returns as missilesDestroyed the number of missiles it turned from
\* alive to not alive.
C26_DamageInRangeOnly ==
    (~battleship.smartbomb.isCycling /\ battleship.currentCapacitor >= sbCapacitorCost) =>
        LET r == smartbombActivate(battleship, heap, missiles)
        IN  /\ r.result.success
            /\ \A id \in DOMAIN heap :
                   IF id \in InRange
                   THEN r.heap[id].currentHP = heap[id].currentHP - sbDamage
                   ELSE /\ r.heap[id].currentHP = heap[id].currentHP
                        /\ r.heap[id].alive = heap[id].alive
            /\ r.result.missilesDestroyed =
                   Cardinality({id \in DOMAIN heap : heap[id].alive /\ ~r.heap[id].alive})

\* C26 witness: right after a second activation, which destroyed the one
\* missile then alive and in range; the two missiles destroyed by the first
\* activation were left as they were.
C26_Witness ==
    /\ battleship.smartbomb.sinceActivation = 0
    /\ battleship.smartbomb.lastResult # Null
    /\ battleship.smartbomb.lastResult[1].success
    /\ battleship.smartbomb.lastResult[1].missilesDestroyed = 1
    /\ heap # <<>>
    /\ \A id \in DOMAIN heap :
           ~heap[id].alive /\ heap[id].currentHP = missileMaxHP - sbDamage

----------------------------------------------------------------------------
(* Claims on the EnemyShip (Spec) *)

\* C27: behaviorChangeInterval is drawn afresh at every behavior switch: next
\* to the draw of the constructor there is one draw per switch.
C27_IntervalRerolled ==
    \A i \in 1..Len(enemies) : enemies[i].intervalRolls = 1 + enemies[i].switches

\* C28: after every EnemyShip update the currentSpeed it reports is at most its
\* maxSpeed.
C28_EnemySpeedWithinMaxSpeed ==
    \A i \in 1..Len(enemies) : enemies[i].currentSpeed <= enemies[i].maxSpeed

----------------------------------------------------------------------------
(* Claims on the impact within a tick (Spec) *)

----------------------------------------------------------------------------
(* Claims on the propulsion values after a tick (SpecPlayer) *)

\* a value times the multiplier of a module, when that module was applied
boosted(v, applied, ratio) == IF applied THEN MulRatio(v, ratio[1], ratio[2]) ELSE v

\* C30: right after every update maxSpeed is baseSpeed times the afterburner
\* boost if the afterburner was applied in it, times the MWD boost if the MWD
\* was applied in it, and signatureRadius is the base signature times the
\* penalties of the same modules; a module is applied in an update exactly
\* when it is still active after it, so nothing carries over from the tick
\* before and a module switched off in the update multiplies nothing.
C30_PropulsionFromBase ==
    [][tickCount' = tickCount + 1 =>
         /\ battleship'.maxSpeed =
                boosted(boosted(baseSpeed * Scale, battleship'.afterburnerActive,
                                afterburnerBoost),
                        battleship'.mwdActive, mwdBoost)
         /\ battleship'.signatureRadius =
                boosted(boosted(baseSignatureRadius, battleship'.afterburnerActive,
                                afterburnerSigPenalty),
                        battleship'.mwdActive, mwdSigPenalty)
         /\ battleship'.afterburnerActive =
                (battleship.afterburnerActive /\ ~battleship'.abStarved)
         /\ battleship'.mwdActive => battleship.mwdActive]_vars

\* C30 witness: both modules have been applied in two updates in a row and the
\* values are the base values times one boost and one penalty of each.
C30_Witness ==
    /\ battleship.afterburnerActive
    /\ battleship.mwdActive
    /\ battleship.mwdRun # Null
    /\ battleship.mwdRun[1] >= 2
    /\ battleship.maxSpeed = MulRatio(MulRatio(baseSpeed * Scale, afterburnerBoost[1],
                                                afterburnerBoost[2]),
                                       mwdBoost[1], mwdBoost[2])
    /\ battleship.signatureRadius > baseSignatureRadius

----------------------------------------------------------------------------
(* Claims on arrival (SpecPlayer) *)

\* the Battleship holds a navigation target less than arrivalThreshold away
nearTarget(b) ==
    /\ b.targetPosition # Null
    /\ Abs(b.targetPosition[1] - b.position) < arrivalThreshold * Scale

\* C31: an update that starts with the Battleship less than 100 m from its
\* navigation target clears the target and leaves the position alone; the
\* position changes only in an update that starts with a target at 100 m or
\* more, and only navigateTo sets a target again.
C31_ArrivalStops ==
    [][/\ (tickCount' = tickCount + 1 /\ nearTarget(battleship))
            => (battleship'.targetPosition = Null
                    /\ battleship'.position = battleship.position)
       /\ battleship'.position # battleship.position
            => (tickCount' = tickCount + 1
                    /\ battleship.targetPosition # Null
                    /\ ~nearTarget(battleship))
       /\ (battleship.targetPosition = Null /\ battleship'.targetPosition # Null)
            => tickCount' = tickCount]_vars

\* C31 witness: the Battleship arrived within 100 m of a target after three
\* accelerating updates, has idled through further updates (its velocity has
\* decayed below the 112.5 m/s it arrived with) and still is where it arrived.
C31_Witness ==
    /\ battleship.arrived
    /\ battleship.targetPosition = Null
    /\ battleship.position = 225 * Scale
    /\ battleship.velocity > 0
    /\ battleship.velocity < 11250

----------------------------------------------------------------------------
(* Claims on the damage model (SpecMissile) *)

\* base damages, radii (m) and speeds (m/s) the damage model is applied to
BaseDamages == {1, 500}
MatchedRadii == {125, 400}
MatchedSpeeds == {1, 150}

\* C32: with the target's signature equal to the explosion radius and the
\* target's speed equal to the explosion velocity, calculateMissileDamage
\* returns exactly the base damage, as in damage(500, 125, 150, 125, 150) = 500;
\* so does a missile built to match the Battleship it meets.
C32_MatchedFullDamage ==
    /\ calculateMissileDamage(500, 125, 150 * Scale, 125, 150) = 500
    /\ \A b \in BaseDamages, r \in MatchedRadii, v \in MatchedSpeeds :
           calculateMissileDamage(b, r, v * Scale, r, v) = b
    /\ (battleship.currentSpeed > 0 /\ battleship.currentSpeed % Scale = 0) =>
           calculateMissileDamage(baseDamage, battleship.signatureRadius,
                                  battleship.currentSpeed, battleship.signatureRadius,
                                  battleship.currentSpeed \div Scale) = baseDamage

\* C32 witness: a missile has impacted a Battleship moving at a whole number
\* of m/s, the case in which a matched missile deals its base damage.
C32_Witness ==
    /\ battleship.currentSpeed > 0
    /\ battleship.currentSpeed % Scale = 0
    /\ \E id \in DOMAIN heap : heap[id].damageDealt # Null /\ heap[id].damageDealt[1] > 0

----------------------------------------------------------------------------
(* Claims on the tracked missiles (Spec) *)

\* C33: at the end of every tick this.missiles holds alive missiles only: a
\* missile that died in the tick, or that a smartbomb destroyed since the
\* tick before, is gone from this.missiles when the tick ends.
C33_TrackedAliveAfterTick ==
    [][tickCount' > tickCount =>
           /\ \A id \in Range(missiles') : heap'[id].alive
           /\ \A id \in Range(missiles) : ~heap[id].alive => id \notin Range(missiles')]_vars

\* C33 witness: the latest tick began with a tracked missile that a smartbomb
\* had destroyed, and this.missiles does not hold it any more.
C33_Witness ==
    \E id \in Range(lastTick.trackedAfterEnemies) :
        /\ heap[id].reason = Some("destroyed")
        /\ id \notin Range(missiles)

----------------------------------------------------------------------------
(* Claims on the lifetime of tracked missiles (SpecTrackedFair) *)

\* C34: a tracked missile that holds a target is tracked for fewer than
\* maxFlightTime (20) ticks: by the end of the 20th tick after addMissiles it
\* is not alive (impact, destruction or timeout) and the tick that saw it dead
\* has removed it; with ticks running it does not stay tracked forever.
C34_TrackedEnds ==
    /\ [](\A id \in Range(missiles) :
             heap[id].target # Null =>
                 tickCount - heap[id].trackedTick[1] < maxFlightTime)
    /\ [][tickCount' = tickCount + 1 =>
             \A id \in Range(missiles') : heap'[id].alive]_vars
    /\ \A id \in 1..MaxTracked :
           (id \in Range(missiles) /\ heap[id].target # Null) ~> (id \notin Range(missiles))

\* C34 witness: a missile with a target was tracked for 19 ticks, died of
\* timeout on the 20th and is not tracked any more.
C34_Witness ==
    \E id \in DOMAIN heap :
        /\ heap[id].target # Null
        /\ heap[id].reason = Some("timeout")
        /\ tickCount = heap[id].trackedTick[1] + maxFlightTime
        /\ id \notin Range(missiles)

\* the Battleship has stayed at the origin since its construction
neverMoved(b) ==
    /\ b.position = 0
    /\ b.velocity = 0
    /\ b.targetPosition = Null
    /\ ~b.arrived

\* C35: a missile chasing a Battleship that never moves, launched within the
\* distance it can fly in its lifetime, never gets to the far side of the
\* Battleship and never ends by timeout.
C35_ReachesRestingTarget ==
    \A id \in DOMAIN heap :
        (/\ neverMoved(battleship)
         /\ heap[id].target # Null
         /\ Abs(heap[id].spawnPosition) <= missileVelocity * maxFlightTime * Scale)
        => /\ heap[id].reason # Some("timeout")
           /\ Sign(heap[id].position) * Sign(heap[id].spawnPosition) >= 0

----------------------------------------------------------------------------
(* Claims on dead missiles under the scheduler (SpecTracked) *)

\* the missile was ended by takeDamage or by timeout
endedWithoutImpact(m) == m.reason \in {Some("destroyed"), Some("timeout")}

\* C36: a missile ended by takeDamage (a smartbomb kill) or by timeout has
\* never called the Battleship's takeDamage and never does in any later step,
\* tick or smartbomb activation; and the Battleship's shield and armor change
\* only in a tick in which a missile that was alive before it impacts.
C36_DeadDealsNoDamage ==
    /\ [](\A id \in DOMAIN heap :
             endedWithoutImpact(heap[id]) =>
                 /\ ~heap[id].alive
                 /\ heap[id].impacts = 0
                 /\ heap[id].damageDealt = Null)
    /\ [][/\ \A id \in DOMAIN heap :
                endedWithoutImpact(heap[id]) =>
                    /\ heap'[id].impacts = heap[id].impacts
                    /\ heap'[id].reason = heap[id].reason
                    /\ heap'[id].position = heap[id].position
          /\ (\/ battleship'.currentShield # battleship.currentShield
              \/ battleship'.currentArmor # battleship.currentArmor)
                => /\ tickCount' = tickCount + 1
                   /\ lastTick'.hits # <<>>
                   /\ \A k \in 1..Len(lastTick'.hits) :
                          /\ heap[lastTick'.hits[k]].alive
                          /\ ~endedWithoutImpact(heap[lastTick'.hits[k]])]_vars

\* C36 witness: one missile was killed by the smartbomb and another timed
\* out; ticks have run since and neither has touched the Battleship.
C36_Witness ==
    /\ \E id \in DOMAIN heap :
           /\ heap[id].reason = Some("destroyed")
           /\ tickCount > heap[id].trackedTick[1] + 2
    /\ \E id \in DOMAIN heap : heap[id].reason = Some("timeout")
    /\ battleship.currentShield = maxShield

----------------------------------------------------------------------------
(* Claims on the module flags (SpecPlayer) *)

\* C37: between operations mwdActive holds exactly when mwdCycleRemaining is
\* above 0, and mwdCycleRemaining is within [0, mwdCycleTime].
C37_MWDFlagMatchesCounter ==
    /\ battleship.mwdActive <=> battleship.mwdCycleRemaining > 0
    /\ 0 <= battleship.mwdCycleRemaining
    /\ battleship.mwdCycleRemaining <= mwdCycleTime

\* C37 witness: the update that ended a full MWD cycle has cleared the flag
\* and left the counter at 0, and the ship still has the speed of the cycle.
C37_Witness ==
    /\ ~battleship.mwdActive
    /\ battleship.mwdCycleRemaining = 0
    /\ battleship.mwdRun = Some(mwdCycleTicks)
    /\ battleship.currentSpeed > baseSpeed * Scale

\* C38: between operations the smartbomb's isCycling holds exactly when
\* cooldownRemaining is above 0, and cooldownRemaining is within [0, cycleTime].
C38_CyclingFlagMatchesCooldown ==
    /\ battleship.smartbomb.isCycling <=> battleship.smartbomb.cooldownRemaining > 0
    /\ 0 <= battleship.smartbomb.cooldownRemaining
    /\ battleship.smartbomb.cooldownRemaining <= sbCycleTime

\* C38 witness: the smartbomb was activated twice, and the updates after the
\* second activation have brought the cooldown back to 0 and cleared the flag.
C38_Witness ==
    /\ battleship.smartbomb.activationCount = 2
    /\ battleship.smartbomb.sinceActivation = sbCycleTicks
    /\ ~battleship.smartbomb.isCycling
    /\ battleship.smartbomb.cooldownRemaining = 0

----------------------------------------------------------------------------
(* Claims on the statistics (SpecTracked) *)

\* the missiles a smartbomb has killed
killed == {id \in DOMAIN heap : heap[id].reason = Some("destroyed")}

\* C39: after any sequence of ticks, addMissiles and activateSmartbomb calls
\* stats.missilesDestroyed is at most stats.missilesLaunched: it counts each
\* missile a smartbomb activation killed once, counts no missile that ended
\* by impact or timeout, and changes in no tick.
C39_DestroyedAtMostLaunched ==
    /\ [](/\ stats.missilesDestroyed <= stats.missilesLaunched
          /\ stats.missilesDestroyed = Cardinality(killed)
          /\ \A id \in killed : heap[id].trackedTick # Null)
    /\ [][tickCount' = tickCount + 1 =>
             stats'.missilesDestroyed = stats.missilesDestroyed]_vars

\* C39 witness: of two missiles launched one was killed by the smartbomb and
\* counted, the other ended by impact or timeout and was not.
C39_Witness ==
    /\ stats.missilesLaunched = 2
    /\ stats.missilesDestroyed = 1
    /\ \E id \in DOMAIN heap : heap[id].reason \in {Some("impact"), Some("timeout")}

----------------------------------------------------------------------------
(* Claims on the capacitor (SpecPlayer) *)

\* C40: an update switches the afterburner off for lack of capacitor only if
\* the smartbomb was activated since the update before; in every state not
\* reached by such an activation the capacitor holds at least the
\* afterburner's cost, whatever modules were toggled.
C40_TicksNeverStarveAfterburner ==
    /\ [](battleship.smartbomb.sinceActivation # 0 =>
              battleship.currentCapacitor >= afterburnerCapCost)
    /\ [][(tickCount' = tickCount + 1 /\ battleship'.abStarved) =>
              battleship.smartbomb.sinceActivation = 0]_vars

\* C40 witness: a smartbomb activation has emptied the capacitor and the
\* update right after it has switched the afterburner off; before that the
\* afterburner and the MWD had run the capacitor below the MWD's cost.
C40_Witness ==
    /\ battleship.abStarved
    /\ battleship.smartbomb.sinceActivation = 1
    /\ battleship.mwdReturned = Some(TRUE)
    /\ ~battleship.mwdActive
    /\ battleship.currentCapacitor < mwdCapCost

====
